---- MODULE Spec2Model ----
(***************************************************************************)
(* The product catalog service (createProductHandler, getProductByIdHandler,*)
(* updateProductHandler, deleteProductHandler over the in-memory array      *)
(* `products`), in its two revisions:                                       *)
(*   "v1"  src/src/index.ts                     (no imageUrl)               *)
(*   "v2"  src/auto-scaling-microservice-backend/src/index.ts               *)
(*         (imageUrl mandatory, detailedDescription optional)               *)
(* A behaviour runs one revision; Init chooses which.                       *)
(* Beside it, listProductsHandler of both revisions, and the stock service  *)
(* of src/unnamed/part_000 (listAllStockHandler, getStockByProductIdHandler,*)
(* updateStockHandler over the object `stockLevels`).                       *)
(***************************************************************************)
EXTENDS Integers, Sequences, FiniteSets, TLC

VARIABLES
    revision,   \* "v1" | "v2": which index.ts is running
    products,   \* the array `products`
    now,        \* the wall clock read by Date.now() / new Date(), in ms
    uuidCount,  \* how many identifiers uuidv4() has handed out
    nreq,       \* requests handled so far
    req,        \* the request handled last
    res,        \* what the handler did with `res` for that request
    stockLevels, \* the stock service's object `stockLevels`: its own
                 \* properties, in the order they were created
    inflight     \* the requests accepted together, each with its answer once
                 \* its handler has run

vars == <<revision, products, now, uuidCount, nreq, req, res, stockLevels,
          inflight>>

-----------------------------------------------------------------------------
(* Bounds of the model *)

\* requests handled in one behaviour of Spec
MaxRequests == 3
\* milliseconds the clock may advance after the module was loaded
MaxTicks == 1
\* requests handled in one behaviour of SpecList
MaxListRequests == 6
\* requests handled in one behaviour of SpecStock
MaxStockRequests == 3
\* requests handled in one behaviour of SpecReads
MaxReadRequests == 6
\* requests handled in one behaviour of SpecFaults
MaxFaultRequests == 3
\* requests of one batch submitted together in SpecConcurrent
MaxInflight == 3

-----------------------------------------------------------------------------
(* JavaScript values, as a JSON body can carry them.  A number is held in   *)
(* hundredths (1499.99 is Num(149999), 25 is Num(2500)).                    *)

Undefined == [t |-> "undefined", n |-> 0, s |-> ""]
Null == [t |-> "null", n |-> 0, s |-> ""]
Num(h) == [t |-> "number", n |-> h, s |-> ""]
Str(x) == [t |-> "string", n |-> 0, s |-> x]

\* typeof v
TypeOf(v) == IF v.t = "null" THEN "object" ELSE v.t

\* !v
Not(v) ==
    \/ v.t = "undefined"
    \/ v.t = "null"
    \/ (v.t = "number" /\ v.n = 0)
    \/ (v.t = "string" /\ v.s = "")

-----------------------------------------------------------------------------
(* Time *)

\* 24 * 60 * 60 * 1000
Day == 86400000

\* Date.now() when the module is loaded and sampleProducts is built
LoadTime == 20 * Day

-----------------------------------------------------------------------------
(* Identifiers *)

\* the k-th value returned by uuidv4(): never one returned before
Uuid(k) == "uuid-" \o ToString(k)

\* an identifier uuidv4() never returns
UnknownId == "no-such-id"

-----------------------------------------------------------------------------
(* Product records.  A v1 product has no detailedDescription and no         *)
(* imageUrl: both read as undefined.                                        *)

Product(id, name, description, detailedDescription, imageUrl, price, stockQuantity, category, createdAt, updatedAt) ==
    [id |-> id, name |-> name, description |-> description,
     detailedDescription |-> detailedDescription, imageUrl |-> imageUrl,
     price |-> price, stockQuantity |-> stockQuantity, category |-> category,
     createdAt |-> createdAt, updatedAt |-> updatedAt]

UnsplashUrl(photo, w) ==
    "https://images.unsplash.com/photo-" \o photo \o "?q=80&w=" \o w
    \o "&auto=format&fit=crop&ixlib=rb-4.1.0"
    \o "&ixid=M3wxMjA3fDB8MHxwaG90by1wYWdlfHx8fGVufDB8fHx8fA%3D%3D"

sampleProductsV1 ==
    << Product(Uuid(1), Str("Laptop Pro 15 inch"),
               Str("High performance laptop for professionals."),
               Undefined, Undefined, Num(149999), Num(2500), Str("Electronics"),
               LoadTime - 7 * Day, LoadTime - 1 * Day),
       Product(Uuid(2), Str("Wireless Mouse Ergo"),
               Str("Ergonomic wireless mouse with long battery life."),
               Undefined, Undefined, Num(3999), Num(15000), Str("Accessories"),
               LoadTime - 10 * Day, LoadTime - 2 * Day),
       Product(Uuid(3), Str("Mechanical Keyboard RGB"),
               Str("RGB backlit mechanical keyboard with blue switches."),
               Undefined, Undefined, Num(8990), Num(7500), Str("Peripherals"),
               LoadTime - 5 * Day, LoadTime - 5 * Day),
       Product(Uuid(4), Str("4K UHD Monitor 27 inch"),
               Str("27 inch 4K UHD monitor with vibrant colors."),
               Undefined, Undefined, Num(34950), Num(4000), Str("Monitors"),
               LoadTime - 15 * Day, LoadTime - 3 * Day),
       Product(Uuid(5), Str("USB-C Hub 7-in-1"),
               Str("Versatile USB-C hub with multiple ports."),
               Undefined, Undefined, Num(2999), Num(20000), Str("Accessories"),
               LoadTime - 20 * Day, LoadTime - 10 * Day) >>

sampleProductsV2 ==
    << [sampleProductsV1[1] EXCEPT
          !.detailedDescription =
             Str("This 15-inch Laptop Pro features the latest generation processor, a stunning Retina display, and all-day battery life. Perfect for creative professionals and developers."),
          !.imageUrl = Str(UnsplashUrl("1611186871348-b1ce696e52c9", "2070"))],
       [sampleProductsV1[2] EXCEPT
          !.imageUrl = Str(UnsplashUrl("1527814050087-3793815479db", "1928"))],
       [sampleProductsV1[3] EXCEPT
          !.imageUrl = Str(UnsplashUrl("1651168251177-32b5138220dc", "1974"))],
       [sampleProductsV1[4] EXCEPT
          !.imageUrl = Str(UnsplashUrl("1576935429524-1df7fb127097", "1974"))],
       [sampleProductsV1[5] EXCEPT
          !.imageUrl = Str(UnsplashUrl("1548544027-1a96c4c24c7a", "1974"))] >>

\* the number of uuidv4() calls made while sampleProducts is built
SampleCount == Len(sampleProductsV1)

-----------------------------------------------------------------------------
(* Requests and responses *)

\* req.body, an object: a field the JSON text leaves out reads as undefined
Body(name, description, detailedDescription, imageUrl, price, stockQuantity, category) ==
    [name |-> name, description |-> description,
     detailedDescription |-> detailedDescription, imageUrl |-> imageUrl,
     price |-> price, stockQuantity |-> stockQuantity, category |-> category]

\* the body of a request that carries none (GET, DELETE): {}
EmptyBody ==
    Body(Undefined, Undefined, Undefined, Undefined, Undefined, Undefined,
         Undefined)

Request(op, id, body) == [op |-> op, id |-> id, body |-> body]

\* res.status(status).json({ message })
JsonMessage(status, message) ==
    [status |-> status, via |-> "json", message |-> message, product |-> <<>>]

\* res.status(status).json(product)
JsonProduct(status, product) ==
    [status |-> status, via |-> "json", message |-> "", product |-> <<product>>]

\* res.status(status).send()
SendEmpty(status) ==
    [status |-> status, via |-> "send", message |-> "", product |-> <<>>]

\* no response written: validation let the request through / nothing handled
NoResponse == [status |-> 0, via |-> "none", message |-> "", product |-> <<>>]

-----------------------------------------------------------------------------
(* Validation of a create or update payload *)

RequiredFieldsV1 == "name, description, price, stockQuantity, category"
RequiredFieldsV2 == "name, description, price, stockQuantity, category, imageUrl"
MustBeNumbers == "Fields price and stockQuantity must be numbers."

\* the presence check alone, the typeof check forgotten
createValidateV1_noTypeCheck(b) ==
    IF \/ Not(b.name)
       \/ Not(b.description)
       \/ b.price = Undefined
       \/ b.stockQuantity = Undefined
       \/ Not(b.category)
    THEN JsonMessage(400, "Please provide all required fields: " \o RequiredFieldsV1)
    ELSE NoResponse

\* createProductHandler, src/src/index.ts: the two checks before newProduct
createValidateV1(b) ==
    IF \/ Not(b.name)
       \/ Not(b.description)
       \/ b.price = Undefined
       \/ b.stockQuantity = Undefined
       \/ Not(b.category)
    THEN JsonMessage(400, "Please provide all required fields: " \o RequiredFieldsV1)
    ELSE IF TypeOf(b.price) # "number" \/ TypeOf(b.stockQuantity) # "number"
    THEN JsonMessage(400, MustBeNumbers)
    ELSE NoResponse

\* the two checks in the other order: typeof first, presence second
createValidateV2_typeFirst(b) ==
    IF TypeOf(b.price) # "number" \/ TypeOf(b.stockQuantity) # "number"
    THEN JsonMessage(400, MustBeNumbers)
    ELSE IF \/ Not(b.name)
            \/ Not(b.description)
            \/ b.price = Undefined
            \/ b.stockQuantity = Undefined
            \/ Not(b.category)
            \/ Not(b.imageUrl)
    THEN JsonMessage(400, "Please provide all required fields: " \o RequiredFieldsV2)
    ELSE NoResponse

\* createProductHandler, backend revision
createValidateV2(b) ==
    IF \/ Not(b.name)
       \/ Not(b.description)
       \/ b.price = Undefined
       \/ b.stockQuantity = Undefined
       \/ Not(b.category)
       \/ Not(b.imageUrl)
    THEN JsonMessage(400, "Please provide all required fields: " \o RequiredFieldsV2)
    ELSE IF TypeOf(b.price) # "number" \/ TypeOf(b.stockQuantity) # "number"
    THEN JsonMessage(400, MustBeNumbers)
    ELSE NoResponse

\* price and stockQuantity tested for truthiness like the string fields
updateValidateV1_falsyNumbers(b) ==
    IF \/ Not(b.name)
       \/ Not(b.description)
       \/ Not(b.price)
       \/ Not(b.stockQuantity)
       \/ Not(b.category)
    THEN JsonMessage(400, "Please provide all required fields for update: " \o RequiredFieldsV1)
    ELSE IF TypeOf(b.price) # "number" \/ TypeOf(b.stockQuantity) # "number"
    THEN JsonMessage(400, MustBeNumbers)
    ELSE NoResponse

\* updateProductHandler, src/src/index.ts: the two checks before findIndex
updateValidateV1(b) ==
    IF \/ Not(b.name)
       \/ Not(b.description)
       \/ b.price = Undefined
       \/ b.stockQuantity = Undefined
       \/ Not(b.category)
    THEN JsonMessage(400, "Please provide all required fields for update: " \o RequiredFieldsV1)
    ELSE IF TypeOf(b.price) # "number" \/ TypeOf(b.stockQuantity) # "number"
    THEN JsonMessage(400, MustBeNumbers)
    ELSE NoResponse

\* the update validation as it was before imageUrl became mandatory
updateValidateV2_noImageUrl(b) ==
    IF \/ Not(b.name)
       \/ Not(b.description)
       \/ b.price = Undefined
       \/ b.stockQuantity = Undefined
       \/ Not(b.category)
    THEN JsonMessage(400, "Please provide all required fields for update: " \o RequiredFieldsV2)
    ELSE IF TypeOf(b.price) # "number" \/ TypeOf(b.stockQuantity) # "number"
    THEN JsonMessage(400, MustBeNumbers)
    ELSE NoResponse

\* updateProductHandler, backend revision
updateValidateV2(b) ==
    IF \/ Not(b.name)
       \/ Not(b.description)
       \/ b.price = Undefined
       \/ b.stockQuantity = Undefined
       \/ Not(b.category)
       \/ Not(b.imageUrl)
    THEN JsonMessage(400, "Please provide all required fields for update: " \o RequiredFieldsV2)
    ELSE IF TypeOf(b.price) # "number" \/ TypeOf(b.stockQuantity) # "number"
    THEN JsonMessage(400, MustBeNumbers)
    ELSE NoResponse

createValidate(b) ==
    IF revision = "v1" THEN createValidateV1(b) ELSE createValidateV2(b)

updateValidate(b) ==
    IF revision = "v1" THEN updateValidateV1(b) ELSE updateValidateV2(b)

-----------------------------------------------------------------------------
(* Array helpers *)

\* a findIndex that answers the last index when there is none
findIndex_lastWhenNone(arr, id) ==
    IF \E i \in 1..Len(arr) : arr[i].id = id
    THEN (CHOOSE i \in 1..Len(arr) :
             /\ arr[i].id = id
             /\ \A j \in 1..(i - 1) : arr[j].id # id) - 1
    ELSE Len(arr) - 1

\* a findIndex that answers 0 when there is none
findIndex_zeroWhenNone(arr, id) ==
    IF \E i \in 1..Len(arr) : arr[i].id = id
    THEN (CHOOSE i \in 1..Len(arr) :
             /\ arr[i].id = id
             /\ \A j \in 1..(i - 1) : arr[j].id # id) - 1
    ELSE 0

\* products.findIndex((p) => p.id === id): 0-based, -1 when there is none
findIndex(arr, id) ==
    IF \E i \in 1..Len(arr) : arr[i].id = id
    THEN (CHOOSE i \in 1..Len(arr) :
             /\ arr[i].id = id
             /\ \A j \in 1..(i - 1) : arr[j].id # id) - 1
    ELSE -1

\* a splice that removes nothing
splice1_keepsAll(arr, index) == arr

\* arr after arr.splice(index): everything from index on is removed
splice1_noCount(arr, index) == SubSeq(arr, 1, index)

\* arr after arr.splice(index, 1), index 0-based and within the array
splice1(arr, index) ==
    SubSeq(arr, 1, index) \o SubSeq(arr, index + 2, Len(arr))

\* arr after arr[index] = value, index 0-based and within the array
setAt(arr, index, value) == [arr EXCEPT ![index + 1] = value]

\* a find whose predicate is always true: the first element, if there is one
find_anyProduct(arr, id) ==
    IF arr = <<>> THEN <<>> ELSE <<arr[1]>>

\* products.find((p) => p.id === id): <<p>> for the first match, <<>> for undefined
find(arr, id) ==
    IF findIndex(arr, id) = -1 THEN <<>> ELSE <<arr[findIndex(arr, id) + 1]>>

-----------------------------------------------------------------------------
(* The objects the handlers build *)

\* a newProduct whose price and stockQuantity are crossed
newProductV1_crossed(id, b, createdAt, updatedAt) ==
    Product(id, b.name, b.description, Undefined, Undefined, b.stockQuantity,
            b.price, b.category, createdAt, updatedAt)

\* newProduct of createProductHandler, src/src/index.ts
newProductV1(id, b, createdAt, updatedAt) ==
    Product(id, b.name, b.description, Undefined, Undefined, b.price,
            b.stockQuantity, b.category, createdAt, updatedAt)

\* newProduct of createProductHandler, backend revision
newProductV2(id, b, createdAt, updatedAt) ==
    Product(id, b.name, b.description, b.detailedDescription, b.imageUrl,
            b.price, b.stockQuantity, b.category, createdAt, updatedAt)

\* an updatedProduct that stamps createdAt as well
updatedProductV1_newCreatedAt(old, b, updatedAt) ==
    [old EXCEPT !.name = b.name,
                !.description = b.description,
                !.price = b.price,
                !.stockQuantity = b.stockQuantity,
                !.category = b.category,
                !.createdAt = updatedAt,
                !.updatedAt = updatedAt]

\* an updatedProduct that keeps the old updatedAt
updatedProductV1_staleUpdatedAt(old, b, updatedAt) ==
    [old EXCEPT !.name = b.name,
                !.description = b.description,
                !.price = b.price,
                !.stockQuantity = b.stockQuantity,
                !.category = b.category]

\* updatedProduct of updateProductHandler, src/src/index.ts
updatedProductV1(old, b, updatedAt) ==
    [old EXCEPT !.name = b.name,
                !.description = b.description,
                !.price = b.price,
                !.stockQuantity = b.stockQuantity,
                !.category = b.category,
                !.updatedAt = updatedAt]

\* an updatedProduct that keeps the old detailedDescription when the payload
\* has none
updatedProductV2_keepsDetail(old, b, updatedAt) ==
    [old EXCEPT !.name = b.name,
                !.description = b.description,
                !.detailedDescription =
                    IF b.detailedDescription = Undefined THEN @
                    ELSE b.detailedDescription,
                !.imageUrl = b.imageUrl,
                !.price = b.price,
                !.stockQuantity = b.stockQuantity,
                !.category = b.category,
                !.updatedAt = updatedAt]

\* updatedProduct of updateProductHandler, backend revision
updatedProductV2(old, b, updatedAt) ==
    [old EXCEPT !.name = b.name,
                !.description = b.description,
                !.detailedDescription = b.detailedDescription,
                !.imageUrl = b.imageUrl,
                !.price = b.price,
                !.stockQuantity = b.stockQuantity,
                !.category = b.category,
                !.updatedAt = updatedAt]

newProduct(id, b, createdAt, updatedAt) ==
    IF revision = "v1" THEN newProductV1(id, b, createdAt, updatedAt)
    ELSE newProductV2(id, b, createdAt, updatedAt)

updatedProduct(old, b, updatedAt) ==
    IF revision = "v1" THEN updatedProductV1(old, b, updatedAt)
    ELSE updatedProductV2(old, b, updatedAt)

\* an identifier derived from the size of the collection
uuidv4_fromLength == Uuid(Len(products) + 1)

\* the value of the next uuidv4() call
uuidv4 == Uuid(uuidCount + 1)

\* the last instant the bounded clock reaches
LastTime == LoadTime + MaxTicks

\* what a second new Date() may read when the one before it read t
LaterReads(t) == {u \in {t, t + 1} : u <= LastTime}

-----------------------------------------------------------------------------
(* The handlers *)

\* POST /products
createProductHandler(b) ==
    /\ req' = Request("create", "", b)
    /\ nreq' = nreq + 1
    /\ IF b = Undefined
       THEN /\ res' = JsonMessage(500, "Server error: Could not add product.")
            /\ UNCHANGED <<products, uuidCount, now>>
       ELSE IF createValidate(b) # NoResponse
       THEN /\ res' = createValidate(b)
            /\ UNCHANGED <<products, uuidCount, now>>
       ELSE \E t \in LaterReads(now) :
               /\ products' = Append(products, newProduct(uuidv4, b, now, t))
               /\ uuidCount' = uuidCount + 1
               /\ now' = t
               /\ res' = JsonProduct(201, newProduct(uuidv4, b, now, t))
    /\ UNCHANGED <<revision, stockLevels>>

\* GET /products/:id
getProductByIdHandler(id) ==
    /\ req' = Request("getById", id, EmptyBody)
    /\ nreq' = nreq + 1
    /\ res' = IF find(products, id) # <<>>
              THEN JsonProduct(200, find(products, id)[1])
              ELSE JsonMessage(404, "Product with id '" \o id \o "' not found.")
    /\ UNCHANGED <<revision, products, uuidCount, now, stockLevels>>

\* an update that looks the identifier up before it validates the payload
updateProductHandler_lookupFirst(id, b) ==
    /\ req' = Request("update", id, b)
    /\ nreq' = nreq + 1
    /\ LET productIndex == findIndex(products, id) IN
       IF b = Undefined
       THEN /\ res' = JsonMessage(500, "Server error: Could not update product.")
            /\ UNCHANGED products
       ELSE IF productIndex = -1
       THEN /\ res' = JsonMessage(404,
                   "Product with id '" \o id \o "' not found, cannot update.")
            /\ UNCHANGED products
       ELSE IF updateValidate(b) # NoResponse
       THEN /\ res' = updateValidate(b)
            /\ UNCHANGED products
       ELSE /\ products' = setAt(products, productIndex,
                   updatedProduct(products[productIndex + 1], b, now))
            /\ res' = JsonProduct(200,
                   updatedProduct(products[productIndex + 1], b, now))
    /\ UNCHANGED <<revision, uuidCount, now, stockLevels>>

\* PUT /products/:id
updateProductHandler(id, b) ==
    /\ req' = Request("update", id, b)
    /\ nreq' = nreq + 1
    /\ IF b = Undefined
       THEN /\ res' = JsonMessage(500, "Server error: Could not update product.")
            /\ UNCHANGED products
       ELSE IF updateValidate(b) # NoResponse
       THEN /\ res' = updateValidate(b)
            /\ UNCHANGED products
       ELSE LET productIndex == findIndex(products, id) IN
            IF productIndex # -1
            THEN /\ products' = setAt(products, productIndex,
                        updatedProduct(products[productIndex + 1], b, now))
                 /\ res' = JsonProduct(200,
                        updatedProduct(products[productIndex + 1], b, now))
            ELSE /\ res' = JsonMessage(404,
                        "Product with id '" \o id \o "' not found, cannot update.")
                 /\ UNCHANGED products
    /\ UNCHANGED <<revision, uuidCount, now, stockLevels>>

\* DELETE /products/:id
deleteProductHandler(id) ==
    /\ req' = Request("delete", id, EmptyBody)
    /\ nreq' = nreq + 1
    /\ LET productIndex == findIndex(products, id) IN
       IF productIndex # -1
       THEN /\ products' = splice1(products, productIndex)
            /\ res' = SendEmpty(204)
       ELSE /\ res' = JsonMessage(404,
                   "Product with id '" \o id \o "' not found, cannot delete.")
            /\ UNCHANGED products
    /\ UNCHANGED <<revision, uuidCount, now, stockLevels>>

\* a millisecond passes between two requests
Tick ==
    /\ now < LastTime
    /\ now' = now + 1
    /\ UNCHANGED <<revision, products, uuidCount, nreq, req, res, stockLevels,
                   inflight>>

-----------------------------------------------------------------------------
(* parseInt(string, 10).  Its result is NaN or an integer.                  *)

NaN == [nan |-> TRUE, v |-> 0]
Number(v) == [nan |-> FALSE, v |-> v]
isNaN(x) == x.nan

Digits == "0123456789"

\* the character at position i (from 1) of s, "" past its end
CharAt(s, i) == IF i <= Len(s) THEN SubSeq(s, i, i) ELSE ""

\* s without its first character
Rest(s) == IF Len(s) <= 1 THEN "" ELSE SubSeq(s, 2, Len(s))

IsDigit(c) == \E d \in 0..9 : CharAt(Digits, d + 1) = c

DigitValue(c) == CHOOSE d \in 0..9 : CharAt(Digits, d + 1) = c

IsWhiteSpace(c) == c \in {" ", "\t"}

\* parseInt skips leading white space
RECURSIVE TrimStart(_)
TrimStart(s) ==
    IF IsWhiteSpace(CharAt(s, 1)) THEN TrimStart(Rest(s)) ELSE s

\* how many digits s starts with
RECURSIVE LeadingDigits(_)
LeadingDigits(s) ==
    IF IsDigit(CharAt(s, 1)) THEN 1 + LeadingDigits(Rest(s)) ELSE 0

\* the number the first k characters of s, all digits, denote
RECURSIVE DecimalValue(_, _)
DecimalValue(s, k) ==
    IF k = 0 THEN 0 ELSE 10 * DecimalValue(s, k - 1) + DigitValue(CharAt(s, k))

\* parseInt(string, 10): white space, a sign, then the longest run of digits;
\* what follows the digits is ignored, and no digit at all gives NaN
parseInt(string) ==
    LET t == TrimStart(string)
        signed == CharAt(t, 1) \in {"+", "-"}
        z == IF signed THEN Rest(t) ELSE t
        k == LeadingDigits(z)
    IN  IF k = 0
        THEN NaN
        ELSE Number(IF CharAt(t, 1) = "-" THEN 0 - DecimalValue(z, k)
                                         ELSE DecimalValue(z, k))

-----------------------------------------------------------------------------
(* Pagination *)

\* req.query of a list request: page and limit are undefined or a string
Query(page, limit) == [page |-> page, limit |-> limit]

ListRequest(op, query) ==
    [op |-> op, id |-> "", body |-> EmptyBody, query |-> query]

\* res.status(status).json({ data, pagination })
JsonPage(status, data, pagination) ==
    [status |-> status, via |-> "json", message |-> "", product |-> <<>>,
     data |-> data, pagination |-> pagination]

\* a Math.ceil that rounds down
MathCeil_floor(a, b) == a \div b

\* a Math.ceil that is one more than the quotient rounded down
MathCeil_plusOne(a, b) == a \div b + 1

\* Math.ceil(a / b) for a >= 0 and b >= 1
MathCeil(a, b) == (a + b - 1) \div b

\* a slice that drops the element at `end - 1`
slice_shortByOne(arr, start, end) ==
    IF start >= Len(arr)
    THEN <<>>
    ELSE SubSeq(arr, start + 1, IF end - 1 < Len(arr) THEN end - 1 ELSE Len(arr))

\* a slice whose window is one element too far
slice_shifted(arr, start, end) ==
    IF start + 1 >= Len(arr)
    THEN <<>>
    ELSE SubSeq(arr, start + 2, IF end + 1 < Len(arr) THEN end + 1 ELSE Len(arr))

\* arr.slice(start, end) for 0 <= start <= end
slice(arr, start, end) ==
    IF start >= Len(arr)
    THEN <<>>
    ELSE SubSeq(arr, start + 1, IF end < Len(arr) THEN end ELSE Len(arr))

\* what listProductsHandler answers to req.query = query
listProducts(query) ==
    LET page == IF Not(query.page) THEN Number(1) ELSE parseInt(query.page.s)
        limit == IF Not(query.limit) THEN Number(10) ELSE parseInt(query.limit.s)
    IN  IF isNaN(page) \/ isNaN(limit) \/ page.v < 1 \/ limit.v < 1
        THEN JsonMessage(400,
               "Invalid pagination parameters. Page and limit must be positive numbers.")
        ELSE LET startIndex == (page.v - 1) * limit.v
                 endIndex == page.v * limit.v
                 results == slice(products, startIndex, endIndex)
                 totalItems == Len(products)
                 totalPages == MathCeil(totalItems, limit.v)
             IN  JsonPage(200, results,
                         [currentPage |-> page.v,
                          totalPages |-> totalPages,
                          totalItems |-> totalItems,
                          limit |-> limit.v,
                          hasNextPage |-> endIndex < totalItems,
                          hasPreviousPage |-> startIndex > 0])

\* GET /products
listProductsHandler(query) ==
    /\ req' = ListRequest("list", query)
    /\ nreq' = nreq + 1
    /\ res' = listProducts(query)
    /\ UNCHANGED <<revision, products, uuidCount, now, stockLevels>>

-----------------------------------------------------------------------------
(* The stock service (src/unnamed/part_000).  `stockLevels` is a plain      *)
(* object: it has its own properties and, behind them, those of             *)
(* Object.prototype.                                                        *)

\* a function value, and the object Object.prototype
Function(name) == [t |-> "function", n |-> 0, s |-> name]
ObjectPrototype == [t |-> "object", n |-> 0, s |-> "Object.prototype"]

\* the methods every plain object inherits
InheritedMethods ==
    {"constructor", "toString", "toLocaleString", "valueOf", "hasOwnProperty",
     "isPrototypeOf", "propertyIsEnumerable", "__defineGetter__",
     "__defineSetter__", "__lookupGetter__", "__lookupSetter__"}

\* the object literal of the module: its two seeded entries
seedStockLevels ==
    << [productId |-> "71cb9bea-6e6e-42d5-a191-e28ad09b1e7b", quantity |-> Num(2500)],
       [productId |-> "1fa7b950-5b2f-4742-a995-17c99022dc12", quantity |-> Num(15000)] >>

\* key is an own property of o
HasOwn(o, key) == \E i \in 1..Len(o) : o[i].productId = key

\* o[key]: the own property, else what Object.prototype has under that name
\* (the accessor __proto__ reads as Object.prototype itself), else undefined
GetProperty(o, key) ==
    IF HasOwn(o, key)
    THEN o[CHOOSE i \in 1..Len(o) : o[i].productId = key].quantity
    ELSE IF key = "__proto__" THEN ObjectPrototype
    ELSE IF key \in InheritedMethods THEN Function(key)
    ELSE Undefined

\* o[key] = v for a number v: overwrites the own property or creates it last;
\* the setter __proto__ ignores a value that is not an object
SetProperty(o, key, v) ==
    IF HasOwn(o, key)
    THEN [o EXCEPT ![CHOOSE i \in 1..Len(o) : o[i].productId = key].quantity = v]
    ELSE IF key = "__proto__" THEN o
    ELSE Append(o, [productId |-> key, quantity |-> v])

\* key is a canonical array index ("0", "7", "42"): Object.keys lists such keys
\* first, in ascending numeric order
IsArrayIndex(key) ==
    /\ Len(key) \in 1..9
    /\ LeadingDigits(key) = Len(key)
    /\ (Len(key) = 1 \/ CharAt(key, 1) # "0")

\* the keys at the positions S, ordered by the number they denote
RECURSIVE ByIndexValue(_, _)
ByIndexValue(o, S) ==
    IF S = {}
    THEN <<>>
    ELSE LET i == CHOOSE j \in S :
                    \A k \in S : DecimalValue(o[j].productId, Len(o[j].productId))
                                   <= DecimalValue(o[k].productId, Len(o[k].productId))
         IN  <<o[i].productId>> \o ByIndexValue(o, S \ {i})

\* the other keys, in the order of creation
RECURSIVE ByCreation(_)
ByCreation(o) ==
    IF o = <<>>
    THEN <<>>
    ELSE (IF IsArrayIndex(o[1].productId) THEN <<>> ELSE <<o[1].productId>>)
            \o ByCreation(Tail(o))

\* Object.keys(o)
ObjectKeys(o) ==
    ByIndexValue(o, {i \in 1..Len(o) : IsArrayIndex(o[i].productId)})
        \o ByCreation(o)

\* Number.isInteger(v) of a number held in hundredths
NumberIsInteger(v) == v.t = "number" /\ v.n % 100 = 0

\* res.status(status).json({ productId, quantity })
JsonStock(status, productId, quantity) ==
    [status |-> status, via |-> "json", message |-> "",
     productId |-> productId, quantity |-> quantity]

\* req.body of a stock update
StockBody(quantity) == [quantity |-> quantity]

\* a map that loses the last key
StockItems_withoutLast(o, keys) ==
    [i \in 1..(Len(keys) - 1) |->
        [productId |-> keys[i], quantity |-> Num(0)]]

\* keys.map(productId => ({ productId, quantity: o[productId] }))
RECURSIVE StockItems(_, _)
StockItems(o, keys) ==
    IF keys = <<>>
    THEN <<>>
    ELSE <<[productId |-> Head(keys), quantity |-> GetProperty(o, Head(keys))]>>
            \o StockItems(o, Tail(keys))

\* Object.keys(stockLevels).map(...)
allStockItems == StockItems(stockLevels, ObjectKeys(stockLevels))

\* what listAllStockHandler answers to req.query = query
listAllStock(query) ==
    LET page == IF Not(query.page) THEN Number(1) ELSE parseInt(query.page.s)
        limit == IF Not(query.limit) THEN Number(10) ELSE parseInt(query.limit.s)
    IN  IF isNaN(page) \/ isNaN(limit) \/ page.v < 1 \/ limit.v < 1
        THEN JsonMessage(400,
               "Invalid pagination parameters. Page and limit must be positive numbers.")
        ELSE LET startIndex == (page.v - 1) * limit.v
                 endIndex == page.v * limit.v
                 results == slice(allStockItems, startIndex, endIndex)
                 totalItems == Len(allStockItems)
                 totalPages == MathCeil(totalItems, limit.v)
             IN  JsonPage(200, results,
                         [currentPage |-> page.v,
                          totalPages |-> totalPages,
                          totalItems |-> totalItems,
                          limit |-> limit.v,
                          hasNextPage |-> endIndex < totalItems,
                          hasPreviousPage |-> startIndex > 0])

\* GET /stock
listAllStockHandler(query) ==
    /\ req' = ListRequest("listStock", query)
    /\ nreq' = nreq + 1
    /\ res' = listAllStock(query)
    /\ UNCHANGED <<revision, products, uuidCount, now, stockLevels>>

\* a GET that creates the entry it does not find
getStockByProductIdHandler_createsEntry(productId) ==
    /\ req' = Request("getStock", productId, EmptyBody)
    /\ nreq' = nreq + 1
    /\ IF GetProperty(stockLevels, productId) # Undefined
       THEN /\ res' = JsonStock(200, productId, GetProperty(stockLevels, productId))
            /\ UNCHANGED stockLevels
       ELSE /\ res' = JsonMessage(404,
                     "Stock information not found for product ID: " \o productId)
            /\ stockLevels' = SetProperty(stockLevels, productId, Num(0))
    /\ UNCHANGED <<revision, products, uuidCount, now>>

\* GET /stock/:productId
getStockByProductIdHandler(productId) ==
    /\ req' = Request("getStock", productId, EmptyBody)
    /\ nreq' = nreq + 1
    /\ res' = IF GetProperty(stockLevels, productId) # Undefined
              THEN JsonStock(200, productId, GetProperty(stockLevels, productId))
              ELSE JsonMessage(404,
                     "Stock information not found for product ID: " \o productId)
    /\ UNCHANGED <<revision, products, uuidCount, now, stockLevels>>

\* a quantity check that forgets the sign
quantityIsInvalid_noSign(quantity) ==
    \/ TypeOf(quantity) # "number"
    \/ ~NumberIsInteger(quantity)

\* a quantity check that forgets Number.isInteger
quantityIsInvalid_noInteger(quantity) ==
    \/ TypeOf(quantity) # "number"
    \/ quantity.n < 0

\* typeof quantity !== "number" || quantity < 0 || !Number.isInteger(quantity)
quantityIsInvalid(quantity) ==
    \/ TypeOf(quantity) # "number"
    \/ quantity.n < 0
    \/ ~NumberIsInteger(quantity)

\* PUT /stock/:productId
updateStockHandler(productId, body) ==
    /\ req' = Request("updateStock", productId, body)
    /\ nreq' = nreq + 1
    /\ IF body = Undefined
       THEN /\ res' = JsonMessage(500,
                   "Server error: Could not update stock information.")
            /\ UNCHANGED stockLevels
       ELSE IF body.quantity = Undefined
       THEN /\ res' = JsonMessage(400, "Missing \"quantity\" in request body.")
            /\ UNCHANGED stockLevels
       ELSE IF quantityIsInvalid(body.quantity)
       THEN /\ res' = JsonMessage(400, "\"quantity\" must be a non-negative integer.")
            /\ UNCHANGED stockLevels
       ELSE /\ stockLevels' = SetProperty(stockLevels, productId, body.quantity)
            /\ res' = JsonStock(200, productId,
                                GetProperty(stockLevels', productId))
    /\ UNCHANGED <<revision, products, uuidCount, now>>

-----------------------------------------------------------------------------
(* Runs in which a statement of the try block throws.  The statements that  *)
(* can throw on a request Express hands over are the destructuring of an    *)
(* absent req.body (modelled in the handlers above) and the calls that log  *)
(* and send the answer, console.log and res.status(..).json(..) or .send(). *)
(* Those come last on every path, after the store was read or written; the  *)
(* catch block then answers 500 and changes nothing else.                   *)

\* the request of a run whose answering call threw
Thrown(request) ==
    [f \in DOMAIN request \cup {"thrown"} |->
        IF f = "thrown" THEN TRUE ELSE request[f]]

\* POST /products, the answering call throws
createProductHandlerCatch(b) ==
    /\ req' = Thrown(Request("create", "", b))
    /\ nreq' = nreq + 1
    /\ res' = JsonMessage(500, "Server error: Could not add product.")
    /\ IF createValidate(b) # NoResponse
       THEN UNCHANGED <<products, uuidCount, now>>
       ELSE \E t \in LaterReads(now) :
               /\ products' = Append(products, newProduct(uuidv4, b, now, t))
               /\ uuidCount' = uuidCount + 1
               /\ now' = t
    /\ UNCHANGED <<revision, stockLevels>>

\* GET /products, the answering call throws
listProductsHandlerCatch(query) ==
    /\ req' = Thrown(ListRequest("list", query))
    /\ nreq' = nreq + 1
    /\ res' = JsonMessage(500, "Server error: Could not list products.")
    /\ UNCHANGED <<revision, products, uuidCount, now, stockLevels>>

\* GET /products/:id, the answering call throws
getProductByIdHandlerCatch(id) ==
    /\ req' = Thrown(Request("getById", id, EmptyBody))
    /\ nreq' = nreq + 1
    /\ res' = JsonMessage(500, "Server error: Could not fetch product.")
    /\ UNCHANGED <<revision, products, uuidCount, now, stockLevels>>

\* PUT /products/:id, the answering call throws
updateProductHandlerCatch(id, b) ==
    /\ req' = Thrown(Request("update", id, b))
    /\ nreq' = nreq + 1
    /\ res' = JsonMessage(500, "Server error: Could not update product.")
    /\ IF updateValidate(b) # NoResponse
       THEN UNCHANGED products
       ELSE LET productIndex == findIndex(products, id) IN
            IF productIndex # -1
            THEN products' = setAt(products, productIndex,
                        updatedProduct(products[productIndex + 1], b, now))
            ELSE UNCHANGED products
    /\ UNCHANGED <<revision, uuidCount, now, stockLevels>>

\* a catch block of the delete that answers with the message of the update
deleteProductHandlerCatch_updateMessage(id) ==
    /\ req' = Thrown(Request("delete", id, EmptyBody))
    /\ nreq' = nreq + 1
    /\ res' = JsonMessage(500, "Server error: Could not update product.")
    /\ LET productIndex == findIndex(products, id) IN
       IF productIndex # -1
       THEN products' = splice1(products, productIndex)
       ELSE UNCHANGED products
    /\ UNCHANGED <<revision, uuidCount, now, stockLevels>>

\* DELETE /products/:id, the answering call throws
deleteProductHandlerCatch(id) ==
    /\ req' = Thrown(Request("delete", id, EmptyBody))
    /\ nreq' = nreq + 1
    /\ res' = JsonMessage(500, "Server error: Could not delete product.")
    /\ LET productIndex == findIndex(products, id) IN
       IF productIndex # -1
       THEN products' = splice1(products, productIndex)
       ELSE UNCHANGED products
    /\ UNCHANGED <<revision, uuidCount, now, stockLevels>>

\* GET /stock, the answering call throws
listAllStockHandlerCatch(query) ==
    /\ req' = Thrown(ListRequest("listStock", query))
    /\ nreq' = nreq + 1
    /\ res' = JsonMessage(500,
                  "Server error: Could not list all stock information.")
    /\ UNCHANGED <<revision, products, uuidCount, now, stockLevels>>

\* GET /stock/:productId, the answering call throws
getStockByProductIdHandlerCatch(productId) ==
    /\ req' = Thrown(Request("getStock", productId, EmptyBody))
    /\ nreq' = nreq + 1
    /\ res' = JsonMessage(500, "Server error: Could not fetch stock information.")
    /\ UNCHANGED <<revision, products, uuidCount, now, stockLevels>>

\* PUT /stock/:productId, the answering call throws
updateStockHandlerCatch(productId, body) ==
    /\ req' = Thrown(Request("updateStock", productId, body))
    /\ nreq' = nreq + 1
    /\ res' = JsonMessage(500,
                  "Server error: Could not update stock information.")
    /\ IF body.quantity = Undefined \/ quantityIsInvalid(body.quantity)
       THEN UNCHANGED stockLevels
       ELSE stockLevels' = SetProperty(stockLevels, productId, body.quantity)
    /\ UNCHANGED <<revision, products, uuidCount, now>>

-----------------------------------------------------------------------------
(* Inputs *)

\* a payload every revision accepts
GoodBody ==
    Body(Str("Awesome Gadget"), Str("The next big thing!"),
         Str("Ships with a charger."), Str("https://example.com/gadget.png"),
         Num(12999), Num(5000), Str("Electronics"))

\* the payloads of Spec: two accepted ones that differ in every mutable field,
\* one that only v1 accepts, and one rejected per check
Bodies ==
    { GoodBody,
      Body(Str("Plain Gadget"), Str("Free sample."), Undefined,
           Str("https://example.com/plain.png"), Num(0), Num(0), Str("Samples")),
      [GoodBody EXCEPT !.imageUrl = Undefined],
      [GoodBody EXCEPT !.name = Undefined],
      [GoodBody EXCEPT !.price = Str("not-a-price")] }

\* the identifiers a client can name: every one handed out so far, and one never
\* handed out
RequestIds == {Uuid(k) : k \in 1..uuidCount} \cup {UnknownId}

\* the payloads of SpecValidation: every combination of a missing, an empty,
\* a zero, a null, a wrong-typed, a negative, a fractional and a good value of
\* the validated fields
AllBodies ==
    { Body(name, description, GoodBody.detailedDescription, imageUrl, price,
           stockQuantity, category) :
        name \in {Undefined, Str(""), GoodBody.name},
        description \in {Undefined, GoodBody.description},
        imageUrl \in {Undefined, GoodBody.imageUrl},
        price \in {Undefined, Null, Num(0), Num(-500), Str("not-a-price"),
                   GoodBody.price},
        stockQuantity \in {Undefined, Num(0), Num(250), Str("many"),
                           GoodBody.stockQuantity},
        category \in {Undefined, GoodBody.category} }

\* the identifiers of SpecValidation: a seeded product's, and one of no product
ProbeIds == {Uuid(1), UnknownId}

\* the product at the head of the array, if there is one, and no product
OldestId == {products[i].id : i \in 1..Len(products) \cap {1}} \cup {UnknownId}

\* what a client may send as ?page= and ?limit=: nothing, the empty string,
\* numbers in and out of range, no number, and a number followed by more
PageValues ==
    {Undefined, Str(""), Str("0"), Str("1"), Str("2"), Str("3"), Str("4"),
     Str("-1"), Str("abc"), Str("2abc")}

LimitValues ==
    {Undefined, Str(""), Str("0"), Str("1"), Str("2"), Str("3"), Str("-2"),
     Str("1.5"), Str("many")}

Queries == {Query(page, limit) : page \in PageValues, limit \in LimitValues}

\* the product ids of SpecStock: a seeded one, a new one, one that is an array
\* index, and two names that Object.prototype has
StockIds ==
    {seedStockLevels[1].productId, "new-id", "7", "constructor", "__proto__"}

\* the bodies of SpecStock: no quantity, null, zero, a positive integer, a
\* negative one, a fraction, and a string
StockBodies ==
    {StockBody(quantity) :
        quantity \in {Undefined, Null, Num(0), Num(1000), Num(-100), Num(250),
                      Str("5")}}

StockQueries ==
    {Query(page, limit) :
        page \in {Undefined, Str("1"), Str("2"), Str("10"), Str("0"),
                  Str("invalid"), Str("2abc")},
        limit \in {Undefined, Str("2"), Str("0"), Str("-2"), Str("many")}}

\* the queries of SpecReads
ReadQueries ==
    {Query(page, limit) :
        page \in {Undefined, Str("1"), Str("2"), Str("3"), Str("0"), Str("abc")},
        limit \in {Undefined, Str("2"), Str("3"), Str("0")}}

\* the product ids SpecReads adds to the stock store
NewStockIds == {"new-id", "7", "constructor"}

-----------------------------------------------------------------------------
(* The service *)

Init ==
    /\ revision \in {"v1", "v2"}
    /\ products = IF revision = "v1" THEN sampleProductsV1 ELSE sampleProductsV2
    /\ now = LoadTime
    /\ uuidCount = SampleCount
    /\ nreq = 0
    /\ req = Request("none", "", EmptyBody)
    /\ res = NoResponse
    /\ stockLevels = seedStockLevels
    /\ inflight = <<>>

Next ==
    \/ nreq < MaxRequests /\ \E b \in Bodies : createProductHandler(b)
       /\ UNCHANGED inflight
    \/ nreq < MaxRequests /\ \E id \in RequestIds : getProductByIdHandler(id)
       /\ UNCHANGED inflight
    \/ nreq < MaxRequests /\ \E id \in RequestIds, b \in Bodies : updateProductHandler(id, b)
       /\ UNCHANGED inflight
    \/ nreq < MaxRequests /\ \E id \in RequestIds : deleteProductHandler(id)
       /\ UNCHANGED inflight
    \/ Tick

Spec == Init /\ [][Next]_vars

\* one create or update, with any payload, sent to the freshly started service
NextValidation ==
    \/ nreq = 0 /\ \E b \in AllBodies : createProductHandler(b)
       /\ UNCHANGED inflight
    \/ nreq = 0 /\ \E id \in ProbeIds, b \in AllBodies : updateProductHandler(id, b)
       /\ UNCHANGED inflight

SpecValidation == Init /\ [][NextValidation]_vars

\* the catalog grows, shrinks and is listed: products are created, the oldest
\* product or no product is deleted, and any page is asked for
NextList ==
    \/ nreq < MaxListRequests /\ createProductHandler(GoodBody)
       /\ UNCHANGED inflight
    \/ nreq < MaxListRequests /\ \E id \in OldestId : deleteProductHandler(id)
       /\ UNCHANGED inflight
    \/ nreq < MaxListRequests /\ \E query \in Queries : listProductsHandler(query)
       /\ UNCHANGED inflight

SpecList == Init /\ [][NextList]_vars

\* the stock service, and beside it the listing of the seeded catalog
NextStock ==
    \/ nreq < MaxStockRequests
          /\ \E productId \in StockIds, body \in StockBodies :
                updateStockHandler(productId, body)
       /\ UNCHANGED inflight
    \/ nreq < MaxStockRequests
          /\ \E productId \in StockIds : getStockByProductIdHandler(productId)
       /\ UNCHANGED inflight
    \/ nreq < MaxStockRequests
          /\ \E query \in StockQueries : listAllStockHandler(query)
       /\ UNCHANGED inflight
    \/ nreq < MaxStockRequests
          /\ \E query \in StockQueries : listProductsHandler(query)
       /\ UNCHANGED inflight

SpecStock == Init /\ [][NextStock]_vars

\* both services are read while the catalog shrinks and the stock store grows
\* a request the server has accepted and not yet handled
Call(request) == [req |-> request, res |-> NoResponse]

\* the requests of a batch: creations, and deletions of the oldest seeded
\* product and of the first product a request creates
ConcurrentRequests ==
    {Request("create", "", GoodBody)}
        \cup {Request("delete", id, EmptyBody) : id \in {Uuid(1), Uuid(SampleCount + 1)}}

Batches == UNION {[1..n -> ConcurrentRequests] : n \in 1..MaxInflight}

\* the requests of batch arrive together, before any of them is handled
Submit(batch) ==
    /\ nreq = 0
    /\ inflight = <<>>
    /\ inflight' = [i \in 1..Len(batch) |-> Call(batch[i])]
    /\ UNCHANGED <<revision, products, now, uuidCount, nreq, req, res,
                   stockLevels>>

\* request number i of the batch waits for the handler of op
Pending(i, op) == inflight[i].res = NoResponse /\ inflight[i].req.op = op

\* the handler that ran was that of request number i: its answer goes to i
Answer(i) == inflight' = [inflight EXCEPT ![i].res = res']

\* the event loop runs one handler at a time, from its first statement to its
\* last, on whichever accepted request it picks next
NextConcurrent ==
    \/ \E batch \in Batches : Submit(batch)
    \/ \E i \in 1..Len(inflight) :
          /\ Pending(i, "create")
          /\ createProductHandler(inflight[i].req.body)
          /\ Answer(i)
    \/ \E i \in 1..Len(inflight) :
          /\ Pending(i, "delete")
          /\ deleteProductHandler(inflight[i].req.id)
          /\ Answer(i)

SpecConcurrent == Init /\ [][NextConcurrent]_vars

\* payloads of the requests sent while faults are possible; Undefined is the
\* req.body of a request whose body was not parsed
FaultBodies ==
    {Undefined, GoodBody, [GoodBody EXCEPT !.price = Str("not-a-price")]}

FaultStockBodies == {Undefined, StockBody(Num(1000)), StockBody(Num(-100))}

FaultStockIds == {seedStockLevels[1].productId, "new-id"}

FaultQueries == {Query(Undefined, Undefined), Query(Str("abc"), Undefined)}

NextFaults ==
    \/ nreq < MaxFaultRequests /\ \E b \in FaultBodies : createProductHandler(b)
       /\ UNCHANGED inflight
    \/ nreq < MaxFaultRequests
          /\ \E id \in ProbeIds, b \in FaultBodies : updateProductHandler(id, b)
       /\ UNCHANGED inflight
    \/ nreq < MaxFaultRequests /\ \E id \in ProbeIds : deleteProductHandler(id)
       /\ UNCHANGED inflight
    \/ nreq < MaxFaultRequests /\ \E id \in ProbeIds : getProductByIdHandler(id)
       /\ UNCHANGED inflight
    \/ nreq < MaxFaultRequests
          /\ \E productId \in FaultStockIds, body \in FaultStockBodies :
                updateStockHandler(productId, body)
       /\ UNCHANGED inflight
    \/ nreq < MaxFaultRequests
          /\ \E productId \in FaultStockIds : getStockByProductIdHandler(productId)
       /\ UNCHANGED inflight
    \/ nreq < MaxFaultRequests
          /\ \E b \in FaultBodies \ {Undefined} : createProductHandlerCatch(b)
       /\ UNCHANGED inflight
    \/ nreq < MaxFaultRequests
          /\ \E query \in FaultQueries : listProductsHandlerCatch(query)
       /\ UNCHANGED inflight
    \/ nreq < MaxFaultRequests
          /\ \E id \in ProbeIds : getProductByIdHandlerCatch(id)
       /\ UNCHANGED inflight
    \/ nreq < MaxFaultRequests
          /\ \E id \in ProbeIds, b \in FaultBodies \ {Undefined} :
                updateProductHandlerCatch(id, b)
       /\ UNCHANGED inflight
    \/ nreq < MaxFaultRequests
          /\ \E id \in ProbeIds : deleteProductHandlerCatch(id)
       /\ UNCHANGED inflight
    \/ nreq < MaxFaultRequests
          /\ \E query \in FaultQueries : listAllStockHandlerCatch(query)
       /\ UNCHANGED inflight
    \/ nreq < MaxFaultRequests
          /\ \E productId \in FaultStockIds :
                getStockByProductIdHandlerCatch(productId)
       /\ UNCHANGED inflight
    \/ nreq < MaxFaultRequests
          /\ \E productId \in FaultStockIds,
                body \in FaultStockBodies \ {Undefined} :
                updateStockHandlerCatch(productId, body)
       /\ UNCHANGED inflight

SpecFaults == Init /\ [][NextFaults]_vars

NextReads ==
    \/ nreq < MaxReadRequests /\ \E id \in OldestId : deleteProductHandler(id)
       /\ UNCHANGED inflight
    \/ nreq < MaxReadRequests
          /\ \E productId \in NewStockIds :
                updateStockHandler(productId, StockBody(Num(1000)))
       /\ UNCHANGED inflight
    \/ nreq < MaxReadRequests /\ \E query \in ReadQueries : listProductsHandler(query)
       /\ UNCHANGED inflight
    \/ nreq < MaxReadRequests /\ \E query \in ReadQueries : listAllStockHandler(query)
       /\ UNCHANGED inflight
    \/ nreq < MaxReadRequests /\ \E id \in ProbeIds : getProductByIdHandler(id)
       /\ UNCHANGED inflight
    \/ nreq < MaxReadRequests
          /\ \E productId \in StockIds : getStockByProductIdHandler(productId)
       /\ UNCHANGED inflight

SpecReads == Init /\ [][NextReads]_vars

-----------------------------------------------------------------------------
(* Vocabulary of the properties *)

\* the identifiers in an array of products
Ids(arr) == {arr[i].id : i \in 1..Len(arr)}

\* every identifier uuidv4() has handed out: the seeded products' and those of
\* all products created since, deleted or not
IssuedIds == {Uuid(k) : k \in 1..uuidCount}

\* this step handles a request of kind op
Handles(op) == nreq' = nreq + 1 /\ req'.op = op

\* the fields a payload must give, by revision
StringFields == IF revision = "v1" THEN {"name", "description", "category"}
                ELSE {"name", "description", "category", "imageUrl"}
NumberFields == {"price", "stockQuantity"}

-----------------------------------------------------------------------------
(* C1: the products of the collection have pairwise distinct identifiers,   *)
(* and the identifier a successful create returns is none handed out        *)
(* before, whether its product is still in the collection or was deleted.   *)

DistinctIds ==
    \A i, j \in 1..Len(products) : i # j => products[i].id # products[j].id

CreatedIdIsNew ==
    (Handles("create") /\ res'.status = 201)
        => /\ Len(res'.product) = 1
           /\ res'.product[1].id \notin IssuedIds
           /\ res'.product[1].id \notin Ids(products)
           /\ res'.product[1].id \in Ids(products')

\* C1: identifiers are pairwise distinct at all times, and a created one is new
C1_UniqueIdentifiers == []DistinctIds /\ [][CreatedIdIsNew]_vars

\* a create succeeded after a delete had made room below the seeded size
C1_Witness ==
    /\ req.op = "create"
    /\ res.status = 201
    /\ Len(products) <= SampleCount
    /\ uuidCount > SampleCount

-----------------------------------------------------------------------------
(* C2: a create whose payload passes validation answers 201 with a product  *)
(* that has a new id, both timestamps and the payload's name, description,  *)
(* price, stockQuantity and category; that product becomes the last element *)
(* of the collection and the elements before it stay as they were.          *)

CreateAppends ==
    (Handles("create") /\ createValidate(req'.body) = NoResponse)
        => /\ res'.status = 201
           /\ res'.via = "json"
           /\ Len(res'.product) = 1
           /\ LET p == res'.product[1] IN
                 /\ p.id \notin Ids(products)
                 /\ now <= p.createdAt
                 /\ p.createdAt <= p.updatedAt
                 /\ p.updatedAt <= now'
                 /\ p.name = req'.body.name
                 /\ p.description = req'.body.description
                 /\ p.price = req'.body.price
                 /\ p.stockQuantity = req'.body.stockQuantity
                 /\ p.category = req'.body.category
                 /\ Len(products') = Len(products) + 1
                 /\ products'[Len(products')] = p
                 /\ \A i \in 1..Len(products) : products'[i] = products[i]

\* C2: a valid create answers 201 and appends exactly the product it returns
C2_CreateAppends == [][CreateAppends]_vars

\* a created product with a price other than its stockQuantity is the last
\* element of a collection that holds an updated product before it
C2_Witness ==
    /\ req.op = "create"
    /\ res.status = 201
    /\ products[Len(products)] = res.product[1]
    /\ res.product[1].price # res.product[1].stockQuantity
    /\ Len(products) > 1
    /\ nreq > 1

-----------------------------------------------------------------------------
(* C3: a create whose payload leaves out a mandatory field, or whose price  *)
(* or stockQuantity is not of type number, answers 400 and leaves the       *)
(* collection as it was.                                                    *)

FailsValidation(b) ==
    \/ \E f \in StringFields \cup NumberFields : b[f] = Undefined
    \/ \E f \in NumberFields : b[f].t # "number"

CreateRejects ==
    (Handles("create") /\ FailsValidation(req'.body))
        => /\ res'.status = 400
           /\ products' = products

\* C3: an invalid create answers 400 and changes nothing
C3_CreateRejects == [][CreateRejects]_vars

\* a payload with a non-number price was refused after the collection had changed
C3_Witness ==
    /\ req.op = "create"
    /\ req.body.price.t = "string"
    /\ res.status = 400
    /\ products # sampleProductsV1
    /\ products # sampleProductsV2

-----------------------------------------------------------------------------
(* C4: a create or update payload in which a mandatory field is missing or  *)
(* falsy is refused with 400 and the required-fields message, and the       *)
(* collection is not modified.                                              *)

\* the required-fields messages of the running revision
RequiredFieldsMessages ==
    IF revision = "v1"
    THEN { "Please provide all required fields: name, description, price, stockQuantity, category",
           "Please provide all required fields for update: name, description, price, stockQuantity, category" }
    ELSE { "Please provide all required fields: name, description, price, stockQuantity, category, imageUrl",
           "Please provide all required fields for update: name, description, price, stockQuantity, category, imageUrl" }

\* the required-fields message of one operation
RequiredFieldsMessage(op) ==
    CHOOSE m \in RequiredFieldsMessages :
        (op = "update") <=> (\E i \in 1..(Len(m) - 9) : SubSeq(m, i, i + 9) = "for update")

HandlesWrite == Handles("create") \/ Handles("update")

PresenceFails(b) ==
    \/ \E f \in StringFields : Not(b[f])
    \/ \E f \in NumberFields : b[f] = Undefined

PresenceRejected ==
    (HandlesWrite /\ PresenceFails(req'.body))
        => /\ res'.status = 400
           /\ res'.message = RequiredFieldsMessage(req'.op)
           /\ products' = products

\* a payload that is complete, with numbers for price and stockQuantity, is not
\* refused, whether or not those numbers are 0
ZeroAccepted ==
    (HandlesWrite /\ ~PresenceFails(req'.body)
                  /\ \A f \in NumberFields : req'.body[f].t = "number")
        => res'.status \in {200, 201, 404}

-----------------------------------------------------------------------------
(* C5: presence is checked before type: a payload that lacks a mandatory    *)
(* field and has a price or stockQuantity that is not a number is answered  *)
(* with the required-fields message, not the must-be-numbers message.       *)

NotNumeric(b) == \E f \in NumberFields : b[f].t # "number"

-----------------------------------------------------------------------------
(* C6: update validates its payload as create does: the two agree on which  *)
(* payloads they accept, and on the status and message of a refusal.        *)

\* what the other operation's validation makes of the payload just handled
OtherValidation ==
    IF req.op = "create" THEN updateValidate(req.body) ELSE createValidate(req.body)

\* C6 as claimed: the same acceptance, status and literal message
C6_Original_SameMessage ==
    req.op \in {"create", "update"}
        => IF res.status = 400
           THEN OtherValidation.status = 400 /\ OtherValidation.message = res.message
           ELSE OtherValidation = NoResponse

\* the message with " for update" taken out
WithoutForUpdate(m) ==
    IF \E i \in 1..(Len(m) - 10) : SubSeq(m, i, i + 10) = " for update"
    THEN LET i == CHOOSE k \in 1..(Len(m) - 10) : SubSeq(m, k, k + 10) = " for update"
         IN SubSeq(m, 1, i - 1) \o SubSeq(m, i + 11, Len(m))
    ELSE m

\* C6 as amended: the same acceptance and status; the same message when
\* the type check fails; when the presence check fails, update's message is
\* create's with "for update" after "required fields"
C6_SameValidation ==
    req.op \in {"create", "update"}
        => IF res.status = 400
           THEN /\ OtherValidation.status = 400
                /\ WithoutForUpdate(OtherValidation.message) = WithoutForUpdate(res.message)
                /\ (res.message = MustBeNumbers <=> OtherValidation.message = MustBeNumbers)
                /\ (res.message # MustBeNumbers =>
                      /\ res.message = RequiredFieldsMessage(req.op)
                      /\ OtherValidation.message # res.message)
           ELSE OtherValidation = NoResponse

\* an update refused by the presence check, which create refuses in other words
C6_Witness ==
    /\ req.op = "update"
    /\ res.status = 400
    /\ res.message = RequiredFieldsMessage("update")
    /\ createValidate(req.body).message = RequiredFieldsMessage("create")

-----------------------------------------------------------------------------
(* C7: an update with a valid payload of a product P that is in the         *)
(* collection answers 200 and changes only P: P keeps its id, createdAt and *)
(* position, its mutable fields take the payload's values (in v2 also       *)
(* imageUrl and detailedDescription, which becomes undefined when the       *)
(* payload has none), and the size and all other products stay.             *)

UpdateReplaces ==
    (Handles("update") /\ updateValidate(req'.body) = NoResponse
                       /\ req'.id \in Ids(products))
        => /\ res'.status = 200
           /\ res'.via = "json"
           /\ Len(res'.product) = 1
           /\ Len(products') = Len(products)
           /\ \E k \in 1..Len(products) :
                 /\ products[k].id = req'.id
                 /\ products'[k] = res'.product[1]
                 /\ products'[k].id = products[k].id
                 /\ products'[k].createdAt = products[k].createdAt
                 /\ products'[k].name = req'.body.name
                 /\ products'[k].description = req'.body.description
                 /\ products'[k].price = req'.body.price
                 /\ products'[k].stockQuantity = req'.body.stockQuantity
                 /\ products'[k].category = req'.body.category
                 /\ revision = "v2" =>
                       /\ products'[k].imageUrl = req'.body.imageUrl
                       /\ products'[k].detailedDescription =
                              req'.body.detailedDescription
                 /\ \A j \in 1..Len(products) : j # k => products'[j] = products[j]

\* C7: a valid update of a product in the collection answers 200 and replaces
\* only that product's mutable fields
C7_UpdateReplaces == [][UpdateReplaces]_vars

\* in v2 the first seeded product, which has a detailedDescription, was updated
\* with a payload that has none
C7_Witness ==
    /\ revision = "v2"
    /\ req.op = "update"
    /\ req.id = Uuid(1)
    /\ res.status = 200
    /\ req.body.detailedDescription = Undefined
    /\ products[1].detailedDescription = Undefined
    /\ products[1].name = req.body.name

-----------------------------------------------------------------------------
(* C8: what a successful update does to the product's updatedAt.            *)

\* the position of the product a request names
Position(id) == CHOOSE k \in 1..Len(products) : products[k].id = id

Updated == Handles("update") /\ res'.status = 200

-----------------------------------------------------------------------------
(* C9: a delete of an id in the collection answers 204 without a body and   *)
(* removes that one product, the others keeping content and order; after    *)
(* that the id is not found again.                                          *)

DeleteRemoves ==
    (Handles("delete") /\ req'.id \in Ids(products))
        => /\ res'.status = 204
           /\ res'.via = "send"
           /\ res'.message = ""
           /\ res'.product = <<>>
           /\ Len(products') = Len(products) - 1
           /\ \E k \in 1..Len(products) :
                 /\ products[k].id = req'.id
                 /\ \A i \in 1..(k - 1) : products'[i] = products[i]
                 /\ \A i \in k..(Len(products) - 1) : products'[i] = products[i + 1]

\* the identifiers of products that were deleted
DeletedIds == IssuedIds \ Ids(products)

\* this step handles a request that names a deleted product
HandlesDeleted(op) == Handles(op) /\ req'.id \in DeletedIds

\* C9 as claimed: the delete removes that one product, and every later
\* getById, update or delete of its id answers 404
C9_Original_DeletedIs404 ==
    [][ /\ DeleteRemoves
        /\ (HandlesDeleted("getById") \/ HandlesDeleted("update")
               \/ HandlesDeleted("delete")) => res'.status = 404 ]_vars

\* C9 as amended: an update is validated before the id is looked up, so of the
\* later updates only those with a valid payload answer 404, the others 400
C9_DeleteRemoves ==
    [][ /\ DeleteRemoves
        /\ (HandlesDeleted("getById") \/ HandlesDeleted("delete"))
              => res'.status = 404
        /\ HandlesDeleted("update") =>
              /\ updateValidate(req'.body) = NoResponse => res'.status = 404
              /\ updateValidate(req'.body) # NoResponse => res'.status = 400
        /\ DeletedIds \subseteq DeletedIds' ]_vars

\* a product was created, then deleted, then asked for
C9_Witness ==
    /\ req.op = "getById"
    /\ req.id = Uuid(SampleCount + 1)
    /\ req.id \in DeletedIds
    /\ res.status = 404

-----------------------------------------------------------------------------
(* C10: a delete of an id that is not in the collection answers 404 with    *)
(* the cannot-delete message and leaves the collection as it was.           *)

DeleteNotFound ==
    (Handles("delete") /\ req'.id \notin Ids(products))
        => /\ res'.status = 404
           /\ res'.via = "json"
           /\ res'.message
                 = "Product with id '" \o req'.id \o "' not found, cannot delete."
           /\ products' = products

\* C10: a delete of an unknown id answers 404 with the message and changes nothing
C10_DeleteNotFound == [][DeleteNotFound]_vars

\* the second delete of the same product
C10_Witness ==
    /\ req.op = "delete"
    /\ req.id \in DeletedIds
    /\ res.status = 404
    /\ Len(products) = SampleCount - 1

-----------------------------------------------------------------------------
(* C11: an update with a valid payload of an id that is not in the          *)
(* collection answers 404 with the cannot-update message and leaves the     *)
(* collection as it was: nothing is created.                                *)

UpdateNotFound ==
    (Handles("update") /\ updateValidate(req'.body) = NoResponse
                       /\ req'.id \notin Ids(products))
        => /\ res'.status = 404
           /\ res'.via = "json"
           /\ res'.message
                 = "Product with id '" \o req'.id \o "' not found, cannot update."
           /\ products' = products

\* C11: a valid update of an unknown id answers 404 with the message and
\* changes nothing
C11_UpdateNotFound == [][UpdateNotFound]_vars

\* a valid update of a product that had been deleted
C11_Witness ==
    /\ req.op = "update"
    /\ updateValidate(req.body) = NoResponse
    /\ req.id \in DeletedIds
    /\ res.status = 404
    /\ Len(products) = SampleCount - 1

-----------------------------------------------------------------------------
(* C12: getById answers 200 with the stored product exactly when a product  *)
(* with the requested id is in the collection, and 404 with the not-found   *)
(* message otherwise; so a created product is found until it is deleted.    *)

GetByIdFinds ==
    Handles("getById") =>
        IF req'.id \in Ids(products)
        THEN /\ res'.status = 200
             /\ res'.via = "json"
             /\ \E k \in 1..Len(products) :
                   /\ products[k].id = req'.id
                   /\ res'.product = <<products[k]>>
        ELSE /\ res'.status = 404
             /\ res'.via = "json"
             /\ res'.product = <<>>
             /\ res'.message = "Product with id '" \o req'.id \o "' not found."

\* C12: getById answers 200 with the stored product if and only if the id is in
\* the collection, else 404 with the message
C12_GetByIdFinds == [][GetByIdFinds]_vars

\* a product was created, then updated, then found with its updated content
C12_Witness ==
    /\ req.op = "getById"
    /\ req.id = Uuid(SampleCount + 1)
    /\ res.status = 200
    /\ res.product[1].name # GoodBody.name
    /\ res.product = <<products[Len(products)]>>

-----------------------------------------------------------------------------
(* C13: whatever the size N of the collection and the valid limit L, every  *)
(* page of the listing reports totalItems = N and totalPages = ceil(N / L), *)
(* which is 0 for the empty collection, and the pages 1..ceil(N / L)        *)
(* together hold N items.                                                   *)

\* the least k with k * L >= N
CeilingOf(N, L) == CHOOSE k \in 0..N : k * L >= N /\ (k = 0 \/ (k - 1) * L < N)

\* the listing of page p with the limit of the last request
PageOfListing(p) == listProducts(Query(Str(ToString(p)), req.query.limit))

\* how many items the pages 1..k of that listing hold together
RECURSIVE ItemsOnPages(_)
ItemsOnPages(k) ==
    IF k = 0 THEN 0 ELSE Len(PageOfListing(k).data) + ItemsOnPages(k - 1)

\* C13: a listing reports totalItems = N and totalPages = ceil(N / L) on every
\* page, and the data of pages 1..ceil(N / L) add up to N items
C13_PagesCoverCollection ==
    (req.op = "list" /\ res.status = 200) =>
        LET N == Len(products)
            L == res.pagination.limit
        IN  /\ L >= 1
            /\ res.pagination.totalItems = N
            /\ res.pagination.totalPages = CeilingOf(N, L)
            /\ (N = 0 => res.pagination.totalPages = 0)
            /\ \A p \in 1..(CeilingOf(N, L) + 1) :
                  /\ PageOfListing(p).status = 200
                  /\ PageOfListing(p).pagination.totalItems = N
                  /\ PageOfListing(p).pagination.totalPages = CeilingOf(N, L)
            /\ ItemsOnPages(CeilingOf(N, L)) = N

\* seven products listed three to a page: the third and last page holds one
C13_Witness ==
    /\ req.op = "list"
    /\ req.query = Query(Str("3"), Str("3"))
    /\ res.status = 200
    /\ Len(products) = SampleCount + 2
    /\ res.pagination.totalPages = 3
    /\ Len(res.data) = 1

-----------------------------------------------------------------------------
(* Vocabulary of the list operations *)

ListOps == {"list", "listStock"}

\* the size of the collection the last request listed
ListedSize == IF req.op = "list" THEN Len(products) ELSE Len(stockLevels)

InvalidPagination ==
    "Invalid pagination parameters. Page and limit must be positive numbers."

\* s is a run of digits
IsNumeral(s) == Len(s) >= 1 /\ LeadingDigits(s) = Len(s)

\* s is written as a number: digits, with an optional sign and fraction
IsNumberText(s) ==
    LET u == IF CharAt(s, 1) = "-" THEN Rest(s) ELSE s
        k == LeadingDigits(u)
    IN  /\ k >= 1
        /\ \/ k = Len(u)
           \/ /\ CharAt(u, k + 1) = "."
              /\ k + 1 < Len(u)
              /\ IsNumeral(SubSeq(u, k + 2, Len(u)))

\* a query parameter that is absent, or is a numeral of 1 or more
IsValidParameter(v) ==
    \/ v = Undefined
    \/ v.t = "string" /\ IsNumeral(v.s) /\ DecimalValue(v.s, Len(v.s)) >= 1

\* the number a valid parameter asks for, `default` when it is absent
Requested(v, default) ==
    IF v = Undefined THEN default ELSE DecimalValue(v.s, Len(v.s))

-----------------------------------------------------------------------------
(* C14: a list request with a valid page and limit whose page lies beyond   *)
(* the last page is answered 200 with no data, the requested page as        *)
(* currentPage, and the true totals.                                        *)

\* C14: a valid list request for a page after the last one answers 200 with
\* data = [], currentPage the requested page, and the true totals
C14_BeyondLastPage ==
    (/\ req.op \in ListOps
     /\ IsValidParameter(req.query.page)
     /\ IsValidParameter(req.query.limit)
     /\ Requested(req.query.page, 1)
           > CeilingOf(ListedSize, Requested(req.query.limit, 10)))
        => /\ res.status = 200
           /\ res.via = "json"
           /\ res.data = <<>>
           /\ res.pagination.currentPage = Requested(req.query.page, 1)
           /\ res.pagination.totalItems = ListedSize
           /\ res.pagination.totalPages
                 = CeilingOf(ListedSize, Requested(req.query.limit, 10))

\* page 10 of a stock store of three entries, two to a page
C14_Witness ==
    /\ req.op = "listStock"
    /\ req.query = Query(Str("10"), Str("2"))
    /\ Len(stockLevels) = 3
    /\ res.status = 200
    /\ res.data = <<>>
    /\ res.pagination.currentPage = 10
    /\ res.pagination.totalPages = 2

-----------------------------------------------------------------------------
(* C15: in both list operations an absent page is 1 and an absent limit 10, *)
(* and a supplied page or limit that is not a number, or is less than 1, is *)
(* answered 400 with the invalid-pagination message.                        *)

\* a supplied parameter that is not a number, or is a number less than 1
IsNotPositiveNumber(v) ==
    /\ v.t = "string"
    /\ \/ ~IsNumberText(v.s)
       \/ CharAt(v.s, 1) = "-"
       \/ DecimalValue(v.s, LeadingDigits(v.s)) < 1

\* C15: absent parameters take the defaults 1 and 10, and a supplied page or
\* limit that is not a number or is less than 1 is answered 400 with the message
C15_Original_InvalidIs400 ==
    req.op \in ListOps =>
        /\ (IsNotPositiveNumber(req.query.page)
               \/ IsNotPositiveNumber(req.query.limit))
              => (res.status = 400 /\ res.message = InvalidPagination)
        /\ (res.status = 200 /\ req.query.page = Undefined)
              => res.pagination.currentPage = 1
        /\ (res.status = 200 /\ req.query.limit = Undefined)
              => res.pagination.limit = 10

-----------------------------------------------------------------------------
(* Vocabulary of the stock service *)

\* the quantity stored under an own key of the store
StoredQuantity(o, key) ==
    o[CHOOSE i \in 1..Len(o) : o[i].productId = key].quantity

\* v is a number that is whole and not negative
IsNonNegativeInteger(v) == v.t = "number" /\ v.n >= 0 /\ v.n % 100 = 0

\* the entries of o without the one under key
RECURSIVE Without(_, _)
Without(o, key) ==
    IF o = <<>> THEN <<>>
    ELSE (IF o[1].productId = key THEN <<>> ELSE <<o[1]>>) \o Without(Tail(o), key)

-----------------------------------------------------------------------------
(* C16: a PUT /stock/:productId with a non-negative integer quantity q      *)
(* answers 200 with {productId, quantity: q} for every productId, adds      *)
(* exactly one entry for a new key and changes no other entry, and the      *)
(* store then holds q under that key for the GETs that follow.              *)

OriginalUpsert ==
    (Handles("updateStock") /\ IsNonNegativeInteger(req'.body.quantity))
        => /\ res' = JsonStock(200, req'.id, req'.body.quantity)
           /\ HasOwn(stockLevels', req'.id)
           /\ StoredQuantity(stockLevels', req'.id) = req'.body.quantity
           /\ Without(stockLevels', req'.id) = Without(stockLevels, req'.id)
           /\ Len(stockLevels')
                 = IF HasOwn(stockLevels, req'.id)
                   THEN Len(stockLevels) ELSE Len(stockLevels) + 1

\* C16: every PUT of a non-negative integer q answers 200 with the pair
\* (productId, q) and leaves q stored under productId, one entry more for a new
\* key and no other entry changed
C16_Original_UpsertAnswersPair == [][OriginalUpsert]_vars

-----------------------------------------------------------------------------
(* C17: getByProductId answers 200 with {productId, quantity} if and only   *)
(* if productId is a key of the store, and 404 with the not-found message   *)
(* for every other productId; the store is unchanged.                       *)

OriginalGetStock ==
    Handles("getStock") =>
        /\ IF HasOwn(stockLevels, req'.id)
           THEN res' = JsonStock(200, req'.id, StoredQuantity(stockLevels, req'.id))
           ELSE /\ res'.status = 404
                /\ res'.message
                      = "Stock information not found for product ID: " \o req'.id
        /\ stockLevels' = stockLevels

\* C17: a GET answers 200 with the stored pair exactly for the keys of the
\* store, and 404 with the message for every other productId
C17_Original_FoundIffKey == [][OriginalGetStock]_vars

-----------------------------------------------------------------------------
(* C18: a stock update without a quantity is answered 400 with the missing- *)
(* quantity message, one whose quantity is not a number, is negative or is  *)
(* fractional is answered 400 with the non-negative-integer message, and    *)
(* neither changes the store.                                               *)

UpdateStockRejects ==
    Handles("updateStock") =>
        /\ req'.body.quantity = Undefined
              => /\ res' = JsonMessage(400, "Missing \"quantity\" in request body.")
                 /\ stockLevels' = stockLevels
        /\ (/\ req'.body.quantity # Undefined
            /\ ~IsNonNegativeInteger(req'.body.quantity))
              => /\ res' = JsonMessage(400,
                              "\"quantity\" must be a non-negative integer.")
                 /\ stockLevels' = stockLevels

\* C18: no quantity gives 400 with the missing message, a quantity that is not
\* a non-negative integer gives 400 with the other message, the store unchanged
C18_UpdateStockRejects == [][UpdateStockRejects]_vars

\* a negative quantity for a key the store does not have was refused
C18_Witness ==
    /\ req.op = "updateStock"
    /\ req.id = "new-id"
    /\ req.body.quantity = Num(-100)
    /\ res.status = 400
    /\ res.message = "\"quantity\" must be a non-negative integer."
    /\ ~HasOwn(stockLevels, "new-id")

-----------------------------------------------------------------------------
(* C19: in every reachable state of the stock service every entry of the    *)
(* store has a quantity that is an integer and at least 0.                  *)

\* C19: every entry of the stock store holds a non-negative integer
C19_QuantitiesAreNaturals ==
    \A i \in 1..Len(stockLevels) : IsNonNegativeInteger(stockLevels[i].quantity)

\* two entries were added, and then a fractional quantity was sent
C19_Witness ==
    /\ Len(stockLevels) = Len(seedStockLevels) + 2
    /\ req.op = "updateStock"
    /\ req.body.quantity = Num(250)
    /\ res.status = 400

-----------------------------------------------------------------------------
(* C20: in every reachable state of the catalog every product has a price   *)
(* that is a non-negative number and a stockQuantity that is a non-negative *)
(* integer, whatever payloads were sent to create and update.               *)

\* C20: every product's price is a number >= 0 and its stockQuantity an
\* integer >= 0
C20_Original_PricesAndStockInRange ==
    \A i \in 1..Len(products) :
        /\ products[i].price.t = "number"
        /\ products[i].price.n >= 0
        /\ IsNonNegativeInteger(products[i].stockQuantity)

-----------------------------------------------------------------------------
(* C21: the stock list returns the entries in the order in which their keys *)
(* were first inserted, whatever the keys look like, and overwriting a key  *)
(* does not move it.                                                        *)

\* C21: the data of a stock listing is the page's run of the entries taken in
\* the order of their first insertion
C21_Original_InsertionOrder ==
    (req.op = "listStock" /\ res.status = 200) =>
        res.data = slice(stockLevels,
                         (res.pagination.currentPage - 1) * res.pagination.limit,
                         res.pagination.currentPage * res.pagination.limit)

-----------------------------------------------------------------------------
(* C22: the stock list paginates as the product list does: over a store and *)
(* a collection of the same size, the same page and limit get the same      *)
(* status, on 200 the same pagination object and as many data, and on 400   *)
(* the same message.                                                        *)

\* two list responses agree in all that does not depend on the items
SameEnvelope(a, b) ==
    /\ a.status = b.status
    /\ a.status \in {200, 400}
    /\ a.status = 200 => (a.pagination = b.pagination /\ Len(a.data) = Len(b.data))
    /\ a.status = 400 => a.message = b.message

\* C22: for equal sizes, a listing of either service agrees with the other
\* service's listing for the same query
C22_SamePagination ==
    Len(products) = Len(stockLevels) =>
        /\ req.op = "list" => SameEnvelope(res, listAllStock(req.query))
        /\ req.op = "listStock" => SameEnvelope(res, listProducts(req.query))

\* three products and three stock entries, page 2 of 2
C22_Witness ==
    /\ req.op = "listStock"
    /\ req.query = Query(Str("2"), Str("2"))
    /\ Len(products) = 3
    /\ Len(stockLevels) = 3
    /\ res.status = 200
    /\ Len(res.data) = 1
    /\ listProducts(req.query).pagination = res.pagination

-----------------------------------------------------------------------------
(* C27: in every list response with status 200, hasNextPage says that       *)
(* currentPage < totalPages and hasPreviousPage that currentPage > 1; so a  *)
(* page after the last has no next and a previous page, and page 1 of an    *)
(* empty collection has neither.                                            *)

\* C27: hasNextPage is currentPage < totalPages and hasPreviousPage is
\* currentPage > 1, in every 200 response of both list operations
C27_NextAndPreviousPage ==
    (req.op \in ListOps /\ res.status = 200) =>
        LET p == res.pagination IN
        /\ p.hasNextPage <=> p.currentPage < p.totalPages
        /\ p.hasPreviousPage <=> p.currentPage > 1
        /\ (p.currentPage > p.totalPages
               /\ ~(p.totalItems = 0 /\ p.currentPage = 1))
              => (~p.hasNextPage /\ p.hasPreviousPage)
        /\ (p.totalItems = 0 /\ p.currentPage = 1)
              => (~p.hasNextPage /\ ~p.hasPreviousPage)

\* page 1 of the catalog after its five products were deleted
C27_Witness ==
    /\ req.op = "list"
    /\ products = <<>>
    /\ res.status = 200
    /\ res.pagination.currentPage = 1
    /\ res.pagination.totalPages = 0
    /\ ~res.pagination.hasNextPage
    /\ ~res.pagination.hasPreviousPage

-----------------------------------------------------------------------------
(* C28: the read operations of both services (list and get by id), whatever *)
(* their parameters and their answer, leave the collection and the stock    *)
(* store as they were.                                                      *)

ReadOps == {"list", "getById", "listStock", "getStock"}

ReadsKeepStores ==
    (nreq' = nreq + 1 /\ req'.op \in ReadOps)
        => /\ res'.status \in {200, 400, 404}
           /\ products' = products
           /\ stockLevels' = stockLevels

\* C28: a list or a get of either service changes neither the products nor
\* the stock entries
C28_ReadsKeepStores == [][ReadsKeepStores]_vars

\* a stock GET of an id the store does not have, answered 404, after an entry
\* was added under another id
C28_Witness ==
    /\ req.op = "getStock"
    /\ req.id = "new-id"
    /\ res.status = 404
    /\ Len(stockLevels) = Len(seedStockLevels) + 1
    /\ ~HasOwn(stockLevels, "new-id")

-----------------------------------------------------------------------------
(* C26: the data of a list response is the run of the collection from index *)
(* (page-1)*limit up to but excluding page*limit, in collection order, so   *)
(* the pages 1..totalPages, concatenated, are the collection: nothing       *)
(* repeated, nothing skipped.                                               *)

\* the data of pages 1..k of the listing with the last request's limit
RECURSIVE ConcatenatedPages(_)
ConcatenatedPages(k) ==
    IF k = 0 THEN <<>> ELSE ConcatenatedPages(k - 1) \o PageOfListing(k).data

\* C26: a listing's data is products[(page-1)*limit .. page*limit - 1], and the
\* pages 1..totalPages concatenated are the whole collection in order
C26_PagesAreContiguousRuns ==
    (req.op = "list" /\ res.status = 200) =>
        LET first == (res.pagination.currentPage - 1) * res.pagination.limit
            last == res.pagination.currentPage * res.pagination.limit
        IN  /\ \A k \in 1..Len(res.data) :
                  /\ first + k <= Len(products)
                  /\ res.data[k] = products[first + k]
            /\ \A i \in 1..Len(products) :
                  (first < i /\ i <= last) => (i - first <= Len(res.data))
            /\ ConcatenatedPages(res.pagination.totalPages) = products

\* page 2 of six products, two to a page: the third and the fourth
C26_Witness ==
    /\ req.op = "list"
    /\ req.query = Query(Str("2"), Str("2"))
    /\ Len(products) = SampleCount + 1
    /\ res.status = 200
    /\ res.data = <<products[3], products[4]>>

-----------------------------------------------------------------------------
(* C25: an update decides on the payload before it looks the identifier up: *)
(* an invalid payload sent to an id that is not in the collection is        *)
(* answered 400 with the validation message, never 404, and 404 is          *)
(* answered only to payloads that pass validation.                          *)

\* C25: an update with an invalid payload answers 400 with a validation
\* message whatever the id, and a 404 goes only to a valid payload with an
\* unknown id
C25_ValidationBeforeLookup ==
    req.op = "update" =>
        /\ (PresenceFails(req.body) \/ NotNumeric(req.body))
              => /\ res.status = 400
                 /\ res.message \in {RequiredFieldsMessage("update"), MustBeNumbers}
        /\ res.status = 404
              => /\ ~PresenceFails(req.body)
                 /\ ~NotNumeric(req.body)
                 /\ req.id \notin Ids(products)

\* a payload without a name sent to an id of no product was answered 400
C25_Witness ==
    /\ req.op = "update"
    /\ req.id = UnknownId
    /\ req.body.name = Undefined
    /\ req.body.price = GoodBody.price
    /\ res.status = 400
    /\ res.message = RequiredFieldsMessage("update")

-----------------------------------------------------------------------------
(* C30: every product has createdAt <= updatedAt, and the createdAt of a    *)
(* product never changes after its creation.                                *)

TimestampsOrdered ==
    \A i \in 1..Len(products) : products[i].createdAt <= products[i].updatedAt

CreatedAtKept ==
    \A i \in 1..Len(products) : \A j \in 1..Len(products') :
        products'[j].id = products[i].id
            => products'[j].createdAt = products[i].createdAt

\* C30: in every state each product's createdAt is at most its updatedAt,
\* and no step changes the createdAt of a product that stays in the collection
C30_CreatedAtOrderedAndImmutable == []TimestampsOrdered /\ [][CreatedAtKept]_vars

\* a product created by a request was updated at a later reading of the clock
C30_Witness ==
    /\ req.op = "update"
    /\ res.status = 200
    /\ res.product[1].id = Uuid(SampleCount + 1)
    /\ res.product[1].createdAt >= LoadTime
    /\ res.product[1].createdAt < res.product[1].updatedAt
    /\ \E i \in 1..Len(products) : products[i] = res.product[1]

-----------------------------------------------------------------------------
(* C24: a fault raised inside a handler body is caught and answered 500     *)
(* with the fixed generic message of the operation, and the service keeps   *)
(* answering the requests that follow.                                      *)

GenericMessage(op) ==
    CASE op = "create"      -> "Server error: Could not add product."
      [] op = "list"        -> "Server error: Could not list products."
      [] op = "getById"     -> "Server error: Could not fetch product."
      [] op = "update"      -> "Server error: Could not update product."
      [] op = "delete"      -> "Server error: Could not delete product."
      [] op = "listStock"   -> "Server error: Could not list all stock information."
      [] op = "getStock"    -> "Server error: Could not fetch stock information."
      [] op = "updateStock" -> "Server error: Could not update stock information."

\* the run that handled request r met a fault
Faulted(r) ==
    \/ "thrown" \in DOMAIN r
    \/ r.op \in {"create", "update", "updateStock"} /\ r.body = Undefined

FaultIsAnswered ==
    /\ nreq > 0 => res # NoResponse
    /\ nreq > 0 /\ Faulted(req)
          => res = [status |-> 500, via |-> "json",
                    message |-> GenericMessage(req.op), product |-> <<>>]

AnswersAfterFault ==
    Faulted(req) /\ nreq' = nreq + 1 /\ ~Faulted(req')
        => res'.status \in {200, 201, 204, 400, 404}

\* C24: every request whose handler met a fault is answered 500 with the
\* generic message of its operation, and a request handled after a faulted
\* one gets the answer of its own handler
C24_FaultsAreCaught == []FaultIsAnswered /\ [][AnswersAfterFault]_vars

\* an update request without a parsed body was answered 500 with the
\* message of the update
C24_Witness ==
    /\ req.op = "update"
    /\ "thrown" \notin DOMAIN req
    /\ req.body = Undefined
    /\ res.status = 500
    /\ res.message = "Server error: Could not update product."

-----------------------------------------------------------------------------
(* C29: whenever a write handler answers 500 the store is as it was before  *)
(* the request.                                                             *)

HandlesStoreWrite ==
    Handles("create") \/ Handles("update") \/ Handles("delete")
        \/ Handles("updateStock")

StoreKeptBehind500 ==
    HandlesStoreWrite /\ res'.status = 500
        => products' = products /\ stockLevels' = stockLevels

\* C29: a step of a write handler that answers 500 leaves the catalog
\* collection and the stock levels as they were
C29_Original_StoreKeptBehind500 == [][StoreKeptBehind500]_vars

-----------------------------------------------------------------------------
(* C23: handler bodies never interleave.  Of the deletions of one existing  *)
(* id submitted together exactly one is answered 204 and the others 404,    *)
(* and the collection shrinks by one; creations submitted together all      *)
(* appear in the collection, with distinct ids.                             *)

\* the requests of the batch for operation op that were answered status
Answered(op, status) ==
    {i \in 1..Len(inflight) :
        inflight[i].req.op = op /\ inflight[i].res.status = status}

\* the requests of the batch that delete id
DeletesOf(id) ==
    {i \in 1..Len(inflight) :
        inflight[i].req.op = "delete" /\ inflight[i].req.id = id}

AllAnswered == \A i \in 1..Len(inflight) : inflight[i].res # NoResponse

\* C23: once a batch is answered, the deletions of a seeded id got exactly
\* one 204 and otherwise 404 and the id is gone; the collection holds one
\* record more per 201 and one less per 204; the products answered 201 have
\* pairwise distinct ids and each is in the collection unless a deletion of
\* its id was answered 204
C23_BatchIsSerial ==
    /\ Len(products) =
          SampleCount + Cardinality(Answered("create", 201))
                      - Cardinality(Answered("delete", 204))
    /\ \A i \in Answered("create", 201) : \A j \in Answered("create", 201) :
          i # j => inflight[i].res.product[1].id # inflight[j].res.product[1].id
    /\ AllAnswered =>
          /\ \A id \in {Uuid(k) : k \in 1..SampleCount} :
                DeletesOf(id) # {} =>
                   /\ Cardinality(DeletesOf(id) \cap Answered("delete", 204)) = 1
                   /\ DeletesOf(id) \ Answered("delete", 204)
                         = DeletesOf(id) \cap Answered("delete", 404)
                   /\ id \notin Ids(products)
          /\ \A i \in Answered("create", 201) :
                \/ inflight[i].res.product[1].id \in Ids(products)
                \/ DeletesOf(inflight[i].res.product[1].id)
                      \cap Answered("delete", 204) # {}
          /\ Answered("create", 201)
                = {i \in 1..Len(inflight) : inflight[i].req.op = "create"}

\* two deletions of the same seeded id and a creation were submitted
\* together and all answered: one 204, one 404, one 201
C23_Witness ==
    /\ Len(inflight) = 3
    /\ AllAnswered
    /\ Cardinality(DeletesOf(Uuid(1))) = 2
    /\ Cardinality(Answered("delete", 204)) = 1
    /\ Cardinality(Answered("delete", 404)) = 1
    /\ Cardinality(Answered("create", 201)) = 1
    /\ Len(products) = SampleCount

====
